---- MODULE Spec2Model ----
(***************************************************************************)
(* Model of the multi-language code scanner: ai_code_analyzer.py           *)
(* (dispatcher, rule sets, severity filter, structured output) and         *)
(* project_health.py (statistics and health score).                        *)
(*                                                                         *)
(* Text is modelled as it is in the program: a str is a sequence of        *)
(* one-character strings, so substring tests, str.find, str.strip and the  *)
(* regular expressions of the rule sets are computed on characters.        *)
(***************************************************************************)
EXTENDS Integers, Sequences, FiniteSets, TLC

VARIABLES
    file,       \* the path handed to analyze_file and what the file system holds there
    pc,         \* position of the run: "start", "returned", "raised", "filtered", ...
    ruleSet,    \* name of the analyzer_func that analyze_file invoked, "none" if none
    found,      \* the finding list as returned by the analysis (before any filter)
    problems,   \* main()'s `problems` variable: found, then the filtered list
    output,     \* the structured document produced by format_output(problems, "json")
    stats,      \* the statistics dictionary of analyze_project_health
    score,      \* the health score in tenths (1000 = 100.0), -1 before it is computed
    exc,        \* the exception that left analyze_file, "none" if it returned
    minSeverity, \* main()'s args.severity, "none" when no filter was asked for
    config,     \* the analyzer's self.config, as _load_config returned it
    tree        \* the entries directory.rglob('*') yields, in visitation order

vars ==
    <<file, pc, ruleSet, found, problems, output, stats, score, exc, minSeverity, config, tree>>

----------------------------------------------------------------------------
(* Characters and str primitives *)

LowerLetters == <<"a","b","c","d","e","f","g","h","i","j","k","l","m",
                  "n","o","p","q","r","s","t","u","v","w","x","y","z">>
UpperLetters == <<"A","B","C","D","E","F","G","H","I","J","K","L","M",
                  "N","O","P","Q","R","S","T","U","V","W","X","Y","Z">>
Digits == {"0","1","2","3","4","5","6","7","8","9"}

Range(f) == {f[k] : k \in DOMAIN f}

\* \w of the re module
WordChars == Range(LowerLetters) \cup Range(UpperLetters) \cup Digits \cup {"_"}
\* \s of the re module, and the characters str.strip()/str.rstrip() remove
SpaceChars == {" ", "\t", "\n", "\r"}

IsWord(c) == c \in WordChars
IsSpace(c) == c \in SpaceChars

\* lower-casing used by re.IGNORECASE
Lower(c) ==
    IF \E k \in 1..26 : UpperLetters[k] = c
    THEN LowerLetters[CHOOSE k \in 1..26 : UpperLetters[k] = c]
    ELSE c

\* does s hold the characters of lit at positions i .. i+Len(lit)-1 (1-based)
HasAt(s, i, lit) ==
    /\ i >= 1
    /\ i + Len(lit) - 1 <= Len(s)
    /\ \A k \in 1..Len(lit) : s[i + k - 1] = lit[k]

HasAtIgnoreCase(s, i, lit) ==
    /\ i >= 1
    /\ i + Len(lit) - 1 <= Len(s)
    /\ \A k \in 1..Len(lit) : Lower(s[i + k - 1]) = Lower(lit[k])

\* `sub in s`
Contains(s, sub) == \E i \in 1..(Len(s) + 1) : HasAt(s, i, sub)

\* s.find(sub): zero-based offset of the first occurrence, -1 when absent
Find(s, sub) ==
    IF Contains(s, sub)
    THEN (CHOOSE i \in 1..(Len(s) + 1) :
             HasAt(s, i, sub) /\ \A j \in 1..(i - 1) : ~HasAt(s, j, sub)) - 1
    ELSE -1

RECURSIVE RStrip(_)
RStrip(s) ==
    IF s # <<>> /\ IsSpace(s[Len(s)]) THEN RStrip(SubSeq(s, 1, Len(s) - 1)) ELSE s

RECURSIVE LStrip(_)
LStrip(s) ==
    IF s # <<>> /\ IsSpace(s[1]) THEN LStrip(Tail(s)) ELSE s

\* s.strip()
Strip(s) == LStrip(RStrip(s))

\* sep.join(parts)
RECURSIVE Join(_, _)
Join(parts, sep) ==
    IF parts = <<>> THEN <<>>
    ELSE IF Len(parts) = 1 THEN parts[1]
    ELSE parts[1] \o sep \o Join(Tail(parts), sep)

\* the text of a character sequence, for interpolation into a message
RECURSIVE Str(_)
Str(s) == IF s = <<>> THEN "" ELSE Head(s) \o Str(Tail(s))

----------------------------------------------------------------------------
(* Regular expressions: a pattern is a sequence of elements                 *)
(*   lit s      the literal characters s                                    *)
(*   ilit s     the literal characters s, ignoring case                     *)
(*   sp+ / sp*  \s+ / \s*                                                   *)
(*   b          \b                                                          *)
(*   notin s    [^...] over the characters of s                             *)
(*   notahead s (?!s)                                                       *)

Lit(s)      == [t |-> "lit", s |-> s]
ILit(s)     == [t |-> "ilit", s |-> s]
SpacePlus   == [t |-> "sp+", s |-> <<>>]
SpaceStar   == [t |-> "sp*", s |-> <<>>]
WordB       == [t |-> "b", s |-> <<>>]
NotIn(s)    == [t |-> "notin", s |-> s]
NotAhead(s) == [t |-> "notahead", s |-> s]

\* \b at position i: exactly one of the characters before and at i is a word character
WordBoundary(s, i) ==
    LET before == i > 1 /\ i - 1 <= Len(s) /\ IsWord(s[i - 1])
        after  == i >= 1 /\ i <= Len(s) /\ IsWord(s[i])
    IN before # after

\* does the pattern pat, from its k-th element on, match s at position i
RECURSIVE MatchFrom(_, _, _, _)
MatchFrom(s, i, pat, k) ==
    IF k > Len(pat) THEN TRUE
    ELSE LET e == pat[k]
         IN CASE e.t = "lit" -> HasAt(s, i, e.s) /\ MatchFrom(s, i + Len(e.s), pat, k + 1)
              [] e.t = "ilit" ->
                    HasAtIgnoreCase(s, i, e.s) /\ MatchFrom(s, i + Len(e.s), pat, k + 1)
              [] e.t = "sp+" ->
                    \E j \in (i + 1)..(Len(s) + 1) :
                        (\A m \in i..(j - 1) : IsSpace(s[m])) /\ MatchFrom(s, j, pat, k + 1)
              [] e.t = "sp*" ->
                    \E j \in i..(Len(s) + 1) :
                        (\A m \in i..(j - 1) : IsSpace(s[m])) /\ MatchFrom(s, j, pat, k + 1)
              [] e.t = "b" -> WordBoundary(s, i) /\ MatchFrom(s, i, pat, k + 1)
              [] e.t = "notin" ->
                    i <= Len(s) /\ s[i] \notin Range(e.s) /\ MatchFrom(s, i + 1, pat, k + 1)
              [] e.t = "notahead" -> ~HasAt(s, i, e.s) /\ MatchFrom(s, i, pat, k + 1)

\* re.search(pat, s)
Search(pat, s) == \E i \in 1..(Len(s) + 1) : MatchFrom(s, i, pat, 1)

----------------------------------------------------------------------------
(* String constants of the source *)

S_np == <<"n", "p", ".">>
S_pd == <<"p", "d", ".">>
S_plt == <<"p", "l", "t", ".">>
S_cv2 == <<"c", "v", "2", ".">>
S_import == <<"i", "m", "p", "o", "r", "t">>
S_from == <<"f", "r", "o", "m">>
S_numpy == <<"n", "u", "m", "p", "y">>
S_pandas == <<"p", "a", "n", "d", "a", "s">>
S_as == <<"a", "s">>
S_matplotlib == <<"m", "a", "t", "p", "l", "o", "t", "l", "i", "b">>
S_matplotlib_pyplot == <<"m", "a", "t", "p", "l", "o", "t", "l", "i", "b", ".", "p", "y", "p", "l", "o", "t">>
S_print == <<"p", "r", "i", "n", "t">>
S_lparen == <<"(">>
S_hash == <<"#">>
S_TODO == <<"T", "O", "D", "O">>
S_FIXME == <<"F", "I", "X", "M", "E">>
S_XXX == <<"X", "X", "X">>
S_console_log == <<"c", "o", "n", "s", "o", "l", "e", ".", "l", "o", "g">>
S_var == <<"v", "a", "r">>
S_eqeq == <<"=", "=">>
S_eq == <<"=">>
S_eq_bang == <<"=", "!">>
S_colon == <<":">>
S_any == <<"a", "n", "y">>
S_System_out_println == <<"S", "y", "s", "t", "e", "m", ".", "o", "u", "t", ".", "p", "r", "i", "n", "t", "l", "n">>
S_printf == <<"p", "r", "i", "n", "t", "f">>
S_include_stdio == <<"#", "i", "n", "c", "l", "u", "d", "e", " ", "<", "s", "t", "d", "i", "o", ".", "h", ">">>
S_newline == <<"\n">>
S_dot == <<".">>
S_slash == <<"/">>

E_py == <<".", "p", "y">>
E_js == <<".", "j", "s">>
E_ts == <<".", "t", "s">>
E_java == <<".", "j", "a", "v", "a">>
E_cpp == <<".", "c", "p", "p">>
E_c == <<".", "c">>
E_go == <<".", "g", "o">>
E_rs == <<".", "r", "s">>
E_rb == <<".", "r", "b">>
E_php == <<".", "p", "h", "p">>
E_cs == <<".", "c", "s">>
E_swift == <<".", "s", "w", "i", "f", "t">>
E_kt == <<".", "k", "t">>

----------------------------------------------------------------------------
(* Data model *)

\* class ProblemSeverity(Enum): member name |-> value
ProblemSeverity ==
    [LOW |-> "low", MEDIUM |-> "medium", HIGH |-> "high", CRITICAL |-> "critical"]

Severities == DOMAIN ProblemSeverity

\* @dataclass CodeProblem: the eight fields, in declaration order
CodeProblem(path, line, col, sev, type, desc, sol, snippet) ==
    [file_path |-> path, line_number |-> line, column |-> col, severity |-> sev,
     problem_type |-> type, description |-> desc, solution |-> sol,
     code_snippet |-> snippet]

\* the outcome of a call: a returned value, or an exception that propagates
Return(v) == [exc |-> "none", value |-> v]
Raise(e)  == [exc |-> e, value |-> <<>>]

----------------------------------------------------------------------------
(* pathlib *)

\* offset (1-based) of the last occurrence of the one-character sub in s, 0 when absent
RFind1(s, sub) ==
    IF \E i \in 1..Len(s) : s[i] = sub[1]
    THEN CHOOSE i \in 1..Len(s) : s[i] = sub[1] /\ \A j \in (i + 1)..Len(s) : s[j] # sub[1]
    ELSE 0

\* Path(p).name: the final path component
PathName(p) == SubSeq(p, RFind1(p, S_slash) + 1, Len(p))

\* Path(p).suffix: from the last dot of the name, unless the dot leads or ends the name
PathSuffix(p) ==
    LET name == PathName(p)
        i    == RFind1(name, S_dot)
    IN IF 1 < i /\ i < Len(name) THEN SubSeq(name, i, Len(name)) ELSE <<>>

----------------------------------------------------------------------------
(* _read_file_lines *)

\* open(file_path, 'r', ...): the errors open() raises on what the path holds
OpenError(f) ==
    IF f.kind = "missing" THEN "FileNotFoundError"
    ELSE IF f.kind = "dir" THEN "IsADirectoryError"
    ELSE IF ~f.readable THEN "PermissionError"
    ELSE "none"

\* utf-8 first; on UnicodeDecodeError latin-1, and [] if that second attempt
\* raises.  Only UnicodeDecodeError is caught around the first attempt.
read_file_lines(f) ==
    IF OpenError(f) # "none" THEN Raise(OpenError(f))
    ELSE IF f.enc = "utf8" THEN Return(f.lines)
    ELSE IF f.reopenFails THEN Return(<<>>)
    ELSE Return(f.lines)

----------------------------------------------------------------------------
(* Findings shared by the rule sets and the dispatcher *)

EmptyFileProblem(file_path) ==
    CodeProblem(file_path, 1, 1, "MEDIUM", "empty_file", "File is empty",
                "Add some code or remove the empty file", <<>>)

FileNotFoundProblem(file_path) ==
    CodeProblem(file_path, 1, 1, "CRITICAL", "file_not_found", "File does not exist",
                "Check the file path and ensure the file exists", <<>>)

UnsupportedFileProblem(file_path) ==
    CodeProblem(file_path, 1, 1, "LOW", "unsupported_file",
                "File type " \o Str(PathSuffix(file_path)) \o " is not supported for analysis",
                "Add support for this file type or skip analysis", <<>>)

----------------------------------------------------------------------------
(* _analyze_python *)

MaxLineLength == 88

\* r'\b(np\.|pd\.|plt\.|cv2\.)'
UsesKnownAlias(line) ==
    \/ Search(<<WordB, Lit(S_np)>>, line)
    \/ Search(<<WordB, Lit(S_pd)>>, line)
    \/ Search(<<WordB, Lit(S_plt)>>, line)
    \/ Search(<<WordB, Lit(S_cv2)>>, line)

\* r'import\s+numpy\s+as\s+np|from\s+numpy\s+import'
NumpyImported(text) ==
    \/ Search(<<Lit(S_import), SpacePlus, Lit(S_numpy), SpacePlus, Lit(S_as), SpacePlus,
                Lit(<<"n", "p">>)>>, text)
    \/ Search(<<Lit(S_from), SpacePlus, Lit(S_numpy), SpacePlus, Lit(S_import)>>, text)

\* r'import\s+pandas\s+as\s+pd|from\s+pandas\s+import'
PandasImported(text) ==
    \/ Search(<<Lit(S_import), SpacePlus, Lit(S_pandas), SpacePlus, Lit(S_as), SpacePlus,
                Lit(<<"p", "d">>)>>, text)
    \/ Search(<<Lit(S_from), SpacePlus, Lit(S_pandas), SpacePlus, Lit(S_import)>>, text)

\* r'import\s+matplotlib\.pyplot\s+as\s+plt|from\s+matplotlib\s+import'
PyplotImported(text) ==
    \/ Search(<<Lit(S_import), SpacePlus, Lit(S_matplotlib_pyplot), SpacePlus, Lit(S_as),
                SpacePlus, Lit(<<"p", "l", "t">>)>>, text)
    \/ Search(<<Lit(S_from), SpacePlus, Lit(S_matplotlib), SpacePlus, Lit(S_import)>>, text)

MissingImportProblem(file_path, line_num, line, alias, description, solution) ==
    CodeProblem(file_path, line_num, Find(line, alias), "HIGH", "missing_import",
                description, solution, Strip(line))

NumpyDescription  == "Using numpy (np.) without import statement"
PandasDescription == "Using pandas (pd.) without import statement"
PyplotDescription == "Using matplotlib (plt.) without import statement"

\* the if / elif / elif chain under the alias test: at most one finding per line
MissingImportCheck(file_path, lines, line_num) ==
    LET line == lines[line_num]
        content_before == Join(SubSeq(lines, 1, line_num - 1), S_newline)
    IN IF ~UsesKnownAlias(line) THEN <<>>
       ELSE IF Contains(line, S_np) /\ ~NumpyImported(content_before)
       THEN <<MissingImportProblem(file_path, line_num, line, S_np, NumpyDescription,
                                   "Add 'import numpy as np' at the top of the file")>>
       ELSE IF Contains(line, S_pd) /\ ~PandasImported(content_before)
       THEN <<MissingImportProblem(file_path, line_num, line, S_pd, PandasDescription,
                                   "Add 'import pandas as pd' at the top of the file")>>
       ELSE IF Contains(line, S_plt) /\ ~PyplotImported(content_before)
       THEN <<MissingImportProblem(file_path, line_num, line, S_plt, PyplotDescription,
                                   "Add 'import matplotlib.pyplot as plt' at the top of the file")>>
       ELSE <<>>

\* r'\bprint\s*\('
PrintCheck(file_path, lines, line_num) ==
    LET line == lines[line_num]
    IN IF Search(<<WordB, Lit(S_print), SpaceStar, Lit(S_lparen)>>, line)
       THEN <<CodeProblem(file_path, line_num, Find(line, S_print), "LOW", "print_statement",
                          "Using print() for output - consider using logging",
                          "Replace print() with appropriate logging statements", Strip(line))>>
       ELSE <<>>

\* LongLineCheck measuring the raw line, terminator and trailing blanks included
LongLineCheck_raw(file_path, lines, line_num) ==
    LET line == lines[line_num]
    IN IF Len(line) > MaxLineLength
       THEN <<CodeProblem(file_path, line_num, 89, "LOW", "long_line",
                          "Line too long (" \o ToString(Len(line)) \o " > 88 characters)",
                          "Break long lines using parentheses or backslashes", Strip(line))>>
       ELSE <<>>

\* len(line.rstrip()) > 88
LongLineCheck(file_path, lines, line_num) ==
    LET line == lines[line_num]
    IN IF Len(RStrip(line)) > MaxLineLength
       THEN <<CodeProblem(file_path, line_num, 89, "LOW", "long_line",
                          "Line too long (" \o ToString(Len(RStrip(line))) \o " > 88 characters)",
                          "Break long lines using parentheses or backslashes", Strip(line))>>
       ELSE <<>>

\* TodoCheck reporting the comment as HIGH
TodoCheck_high(file_path, lines, line_num) ==
    LET line == lines[line_num]
    IN IF \/ Search(<<Lit(S_hash), SpaceStar, ILit(S_TODO)>>, line)
          \/ Search(<<Lit(S_hash), SpaceStar, ILit(S_FIXME)>>, line)
          \/ Search(<<Lit(S_hash), SpaceStar, ILit(S_XXX)>>, line)
       THEN <<CodeProblem(file_path, line_num, Find(line, S_hash), "HIGH", "todo_comment",
                          "Found TODO/FIXME comment",
                          "Complete the TODO item or create a proper issue", Strip(line))>>
       ELSE <<>>

\* r'#\s*(TODO|FIXME|XXX)' with re.IGNORECASE
TodoCheck(file_path, lines, line_num) ==
    LET line == lines[line_num]
    IN IF \/ Search(<<Lit(S_hash), SpaceStar, ILit(S_TODO)>>, line)
          \/ Search(<<Lit(S_hash), SpaceStar, ILit(S_FIXME)>>, line)
          \/ Search(<<Lit(S_hash), SpaceStar, ILit(S_XXX)>>, line)
       THEN <<CodeProblem(file_path, line_num, Find(line, S_hash), "MEDIUM", "todo_comment",
                          "Found TODO/FIXME comment",
                          "Complete the TODO item or create a proper issue", Strip(line))>>
       ELSE <<>>

\* the body of `for line_num, line in enumerate(lines, 1)`, for the lines from line_num on
RECURSIVE PythonLineChecks(_, _, _)
PythonLineChecks(file_path, lines, line_num) ==
    IF line_num > Len(lines) THEN <<>>
    ELSE MissingImportCheck(file_path, lines, line_num)
         \o PrintCheck(file_path, lines, line_num)
         \o LongLineCheck(file_path, lines, line_num)
         \o TodoCheck(file_path, lines, line_num)
         \o PythonLineChecks(file_path, lines, line_num + 1)

\* the second open() and ast.parse(content): "ok", "syntax" (SyntaxError with
\* lineno/offset, 0 standing for None or 0) or "fault" (any other exception, which
\* includes the utf-8 decode failure of f.read() and a failing open)
ParseOutcome(f) ==
    IF f.reopenFails \/ f.enc # "utf8"
    THEN [kind |-> "fault", lineno |-> 0, offset |-> 0, msg |-> "cannot read the file as utf-8"]
    ELSE f.parse

\* SyntaxCheck reporting every syntax error at line 1, whatever e.lineno is
SyntaxCheck_line1(f, lines) ==
    LET e == ParseOutcome(f)
    IN IF e.kind = "syntax"
       THEN <<CodeProblem(f.path, 1, IF e.offset # 0 THEN e.offset ELSE 1,
                          "CRITICAL", "syntax_error", "Syntax error: " \o e.msg,
                          "Fix the syntax error according to Python grammar rules",
                          IF e.lineno # 0 /\ e.lineno <= Len(lines)
                          THEN Strip(lines[e.lineno]) ELSE <<>>)>>
       ELSE IF e.kind = "fault"
       THEN <<CodeProblem(f.path, 1, 1, "HIGH", "parse_error",
                          "Failed to parse Python file: " \o e.msg,
                          "Check file encoding and Python version compatibility", <<>>)>>
       ELSE <<>>

\* the try / except SyntaxError / except Exception block
SyntaxCheck(f, lines) ==
    LET e == ParseOutcome(f)
    IN IF e.kind = "syntax"
       THEN <<CodeProblem(f.path,
                          IF e.lineno # 0 THEN e.lineno ELSE 1,
                          IF e.offset # 0 THEN e.offset ELSE 1,
                          "CRITICAL", "syntax_error", "Syntax error: " \o e.msg,
                          "Fix the syntax error according to Python grammar rules",
                          IF e.lineno # 0 /\ e.lineno <= Len(lines)
                          THEN Strip(lines[e.lineno]) ELSE <<>>)>>
       ELSE IF e.kind = "fault"
       THEN <<CodeProblem(f.path, 1, 1, "HIGH", "parse_error",
                          "Failed to parse Python file: " \o e.msg,
                          "Check file encoding and Python version compatibility", <<>>)>>
       ELSE <<>>

analyze_python(f) ==
    LET r == read_file_lines(f)
    IN IF r.exc # "none" THEN r
       ELSE IF r.value = <<>> THEN Return(<<EmptyFileProblem(f.path)>>)
       ELSE Return(SyntaxCheck(f, r.value) \o PythonLineChecks(f.path, r.value, 1))

----------------------------------------------------------------------------
(* _analyze_javascript *)

ConsoleLogCheck(file_path, lines, line_num) ==
    LET line == lines[line_num]
    IN IF Contains(line, S_console_log)
       THEN <<CodeProblem(file_path, line_num, Find(line, S_console_log), "LOW", "console_log",
                          "console.log statement found - consider removing for production",
                          "Remove console.log or use proper logging framework", Strip(line))>>
       ELSE <<>>

\* the pattern without its word boundary
VarPattern_noBoundary == <<Lit(S_var), SpacePlus>>

\* r'\bvar\s+'
VarPattern == <<WordB, Lit(S_var), SpacePlus>>

VarCheck(file_path, lines, line_num) ==
    LET line == lines[line_num]
    IN IF Search(VarPattern, line)
       THEN <<CodeProblem(file_path, line_num, Find(line, S_var), "MEDIUM", "var_declaration",
                          "Using 'var' - prefer 'let' or 'const'",
                          "Replace 'var' with 'let' for mutable variables or 'const' for constants",
                          Strip(line))>>
       ELSE <<>>

\* r'[^=!]==(?!=)'
LooseEqualityCheck(file_path, lines, line_num) ==
    LET line == lines[line_num]
    IN IF Search(<<NotIn(S_eq_bang), Lit(S_eqeq), NotAhead(S_eq)>>, line)
       THEN <<CodeProblem(file_path, line_num, Find(line, S_eqeq), "MEDIUM", "loose_equality",
                          "Using loose equality (==) - prefer strict equality (===)",
                          "Use === for strict equality comparison", Strip(line))>>
       ELSE <<>>

RECURSIVE JavascriptLineChecks(_, _, _)
JavascriptLineChecks(file_path, lines, line_num) ==
    IF line_num > Len(lines) THEN <<>>
    ELSE ConsoleLogCheck(file_path, lines, line_num)
         \o VarCheck(file_path, lines, line_num)
         \o LooseEqualityCheck(file_path, lines, line_num)
         \o JavascriptLineChecks(file_path, lines, line_num + 1)

analyze_javascript(f) ==
    LET r == read_file_lines(f)
    IN IF r.exc # "none" THEN r
       ELSE IF r.value = <<>> THEN Return(<<EmptyFileProblem(f.path)>>)
       ELSE Return(JavascriptLineChecks(f.path, r.value, 1))

----------------------------------------------------------------------------
(* _analyze_typescript: the JavaScript findings, then a second pass for any_type *)

\* r':\s*any\b'
RECURSIVE AnyTypeChecks(_, _, _)
AnyTypeChecks(file_path, lines, line_num) ==
    IF line_num > Len(lines) THEN <<>>
    ELSE LET line == lines[line_num]
         IN (IF Search(<<Lit(S_colon), SpaceStar, Lit(S_any), WordB>>, line)
             THEN <<CodeProblem(file_path, line_num, Find(line, S_any), "MEDIUM", "any_type",
                                "Using 'any' type - reduces type safety",
                                "Use specific types instead of 'any'", Strip(line))>>
             ELSE <<>>)
            \o AnyTypeChecks(file_path, lines, line_num + 1)

analyze_typescript(f) ==
    LET js == analyze_javascript(f)
        r  == read_file_lines(f)
    IN IF js.exc # "none" THEN js
       ELSE IF r.exc # "none" THEN r
       ELSE Return(js.value \o AnyTypeChecks(f.path, r.value, 1))

----------------------------------------------------------------------------
(* _analyze_java *)

RECURSIVE JavaLineChecks(_, _, _)
JavaLineChecks(file_path, lines, line_num) ==
    IF line_num > Len(lines) THEN <<>>
    ELSE LET line == lines[line_num]
         IN (IF Contains(line, S_System_out_println)
             THEN <<CodeProblem(file_path, line_num, Find(line, S_System_out_println), "LOW",
                                "system_out",
                                "Using System.out.println - consider using logging",
                                "Use a logging framework like SLF4J or java.util.logging",
                                Strip(line))>>
             ELSE <<>>)
            \o JavaLineChecks(file_path, lines, line_num + 1)

analyze_java(f) ==
    LET r == read_file_lines(f)
    IN IF r.exc # "none" THEN r ELSE Return(JavaLineChecks(f.path, r.value, 1))

----------------------------------------------------------------------------
(* _analyze_c_family, reached through _analyze_cpp and _analyze_c *)

RECURSIVE CFamilyLineChecks(_, _, _)
CFamilyLineChecks(file_path, lines, line_num) ==
    IF line_num > Len(lines) THEN <<>>
    ELSE LET line == lines[line_num]
         IN (IF /\ Contains(line, S_printf)
                /\ ~\E k \in 1..(line_num - 1) : Contains(lines[k], S_include_stdio)
             THEN <<CodeProblem(file_path, line_num, Find(line, S_printf), "HIGH",
                                "missing_include", "Using printf without including stdio.h",
                                "Add #include <stdio.h> at the top of the file", Strip(line))>>
             ELSE <<>>)
            \o CFamilyLineChecks(file_path, lines, line_num + 1)

analyze_c_family(f) ==
    LET r == read_file_lines(f)
    IN IF r.exc # "none" THEN r ELSE Return(CFamilyLineChecks(f.path, r.value, 1))

\* _analyze_go, _analyze_rust, _analyze_ruby, _analyze_php, _analyze_csharp,
\* _analyze_swift, _analyze_kotlin: return [] without touching the file
analyze_stub(f) == Return(<<>>)

----------------------------------------------------------------------------
(* __init__ and _load_config *)

\* the dictionary _load_config returns when it falls back
DefaultConfig ==
    [analysis_rules |->
        [python |-> [enabled |-> TRUE], javascript |-> [enabled |-> TRUE],
         typescript |-> [enabled |-> TRUE], java |-> [enabled |-> TRUE],
         c_cpp |-> [enabled |-> TRUE]],
     output |->
        [default_format |-> "text", show_code_snippets |-> TRUE, group_by_severity |-> TRUE]]

\* cf is what lies at config_path: kind "absent", "malformed" (open or
\* json.load raises) or "document", a file holding the JSON document cf.document
load_config(cf) ==
    IF cf.kind = "document" THEN cf.document ELSE DefaultConfig

----------------------------------------------------------------------------
(* The dispatcher *)

\* self.supported_extensions: suffix |-> the rule set registered for it
supported_extensions ==
    (E_py :> "_analyze_python") @@ (E_js :> "_analyze_javascript") @@
    (E_ts :> "_analyze_typescript") @@ (E_java :> "_analyze_java") @@
    (E_cpp :> "_analyze_cpp") @@ (E_c :> "_analyze_c") @@ (E_go :> "_analyze_go") @@
    (E_rs :> "_analyze_rust") @@ (E_rb :> "_analyze_ruby") @@ (E_php :> "_analyze_php") @@
    (E_cs :> "_analyze_csharp") @@ (E_swift :> "_analyze_swift") @@
    (E_kt :> "_analyze_kotlin")

\* analyzer_func(file_path) for the registered function named func
RunRuleSet(func, f) ==
    CASE func = "_analyze_python"     -> analyze_python(f)
      [] func = "_analyze_javascript" -> analyze_javascript(f)
      [] func = "_analyze_typescript" -> analyze_typescript(f)
      [] func = "_analyze_java"       -> analyze_java(f)
      [] func \in {"_analyze_cpp", "_analyze_c"} -> analyze_c_family(f)
      [] OTHER -> analyze_stub(f)

\* the rule set analyze_file hands the file to, "none" on the two early returns
InvokedRuleSet(f) ==
    IF f.kind = "missing" THEN "none"
    ELSE IF PathSuffix(f.path) \notin DOMAIN supported_extensions THEN "none"
    ELSE supported_extensions[PathSuffix(f.path)]

\* analyze_file testing the extension before the existence of the path
analyze_file_suffix_first(f) ==
    IF PathSuffix(f.path) \notin DOMAIN supported_extensions
    THEN Return(<<UnsupportedFileProblem(f.path)>>)
    ELSE IF f.kind = "missing" THEN Return(<<FileNotFoundProblem(f.path)>>)
    ELSE RunRuleSet(supported_extensions[PathSuffix(f.path)], f)

analyze_file(f) ==
    IF f.kind = "missing" THEN Return(<<FileNotFoundProblem(f.path)>>)
    ELSE IF PathSuffix(f.path) \notin DOMAIN supported_extensions
    THEN Return(<<UnsupportedFileProblem(f.path)>>)
    ELSE RunRuleSet(supported_extensions[PathSuffix(f.path)], f)

----------------------------------------------------------------------------
(* analyze_directory *)

\* the finding appended by `except Exception as e`; e stands for str(e)
AnalysisErrorProblem(file_path, e) ==
    CodeProblem(file_path, 1, 1, "HIGH", "analysis_error", "Failed to analyze file: " \o e,
                "Check file encoding and syntax", <<>>)

\* file_path.is_file() and file_path.suffix in self.supported_extensions
Visited(f) == f.kind = "file" /\ PathSuffix(f.path) \in DOMAIN supported_extensions

\* the walk with the try around the loop: the first failing file ends it
RECURSIVE analyze_directory_abort(_)
analyze_directory_abort(entries) ==
    IF entries = <<>> THEN <<>>
    ELSE LET f == Head(entries)
             r == analyze_file(f)
         IN IF ~Visited(f) THEN analyze_directory_abort(Tail(entries))
            ELSE IF r.exc = "none" THEN r.value \o analyze_directory_abort(Tail(entries))
            ELSE <<AnalysisErrorProblem(f.path, r.exc)>>

\* the loop over directory.rglob('*'), for the entries still to visit
RECURSIVE analyze_directory(_)
analyze_directory(entries) ==
    IF entries = <<>> THEN <<>>
    ELSE LET f == Head(entries)
             r == analyze_file(f)
         IN IF ~Visited(f) THEN analyze_directory(Tail(entries))
            ELSE IF r.exc = "none" THEN r.value \o analyze_directory(Tail(entries))
            ELSE <<AnalysisErrorProblem(f.path, r.exc)>> \o analyze_directory(Tail(entries))

----------------------------------------------------------------------------
(* main(): the minimum-severity filter *)

\* the table with CRITICAL left out of the "high" row
severity_levels_high_only ==
    [low      |-> <<"LOW", "MEDIUM", "HIGH", "CRITICAL">>,
     medium   |-> <<"MEDIUM", "HIGH", "CRITICAL">>,
     high     |-> <<"HIGH">>,
     critical |-> <<"CRITICAL">>]

\* severity_levels: --severity choice |-> the severities that survive
severity_levels ==
    [low      |-> <<"LOW", "MEDIUM", "HIGH", "CRITICAL">>,
     medium   |-> <<"MEDIUM", "HIGH", "CRITICAL">>,
     high     |-> <<"HIGH", "CRITICAL">>,
     critical |-> <<"CRITICAL">>]

\* [p for p in problems if p.severity in severity_levels[level]]
FilterBySeverity(ps, level) ==
    LET keep(p) == p.severity \in Range(severity_levels[level])
    IN SelectSeq(ps, keep)

----------------------------------------------------------------------------
(* format_output(problems, "json"): the array of objects handed to json.dumps *)

\* the object with the severity written as the member's name, not its value
JsonObject_name(p) ==
    [file_path |-> p.file_path, line_number |-> p.line_number, column |-> p.column,
     severity |-> p.severity, problem_type |-> p.problem_type,
     description |-> p.description, solution |-> p.solution,
     code_snippet |-> p.code_snippet]

JsonObject(p) ==
    [file_path |-> p.file_path, line_number |-> p.line_number, column |-> p.column,
     severity |-> ProblemSeverity[p.severity], problem_type |-> p.problem_type,
     description |-> p.description, solution |-> p.solution,
     code_snippet |-> p.code_snippet]

format_output_json(ps) == [i \in 1..Len(ps) |-> JsonObject(ps[i])]

\* ProblemSeverity(value): the member whose value is v, "ValueError" if there is none
SeverityOfValue(v) ==
    IF \E n \in Severities : ProblemSeverity[n] = v
    THEN CHOOSE n \in Severities : ProblemSeverity[n] = v
    ELSE "ValueError"

\* reading the document back: CodeProblem(**obj) with the severity looked up by value
ParseJsonObject(o) ==
    IF DOMAIN o = {"file_path", "line_number", "column", "severity", "problem_type",
                   "description", "solution", "code_snippet"}
    THEN CodeProblem(o.file_path, o.line_number, o.column, SeverityOfValue(o.severity),
                     o.problem_type, o.description, o.solution, o.code_snippet)
    ELSE [error |-> "TypeError"]

ParseJson(doc) == [i \in 1..Len(doc) |-> ParseJsonObject(doc[i])]

----------------------------------------------------------------------------
(* format_output(problems, "text"): the list handed to "\n".join.  An entry is *)
(* the f-string that was appended: its template and the values put into it. *)
(* The icons are written by name.                                           *)

Line(template, args) == [template |-> template, args |-> args]

SuccessLine == Line("(check mark) No problems found! Your code looks good.", <<>>)
FoundTemplate == "(magnifier) Found {} problem(s):\n"
HeaderTemplate == "\n{} {} SEVERITY ({} issues):"
LocationTemplate == "\n  (page) {}:{}:{}"
ProblemTemplate == "     Problem: {}"
SolutionTemplate == "     Solution: {}"
CodeTemplate == "     Code: {}"

severity_icons ==
    [CRITICAL |-> "(siren)", HIGH |-> "(red circle)", MEDIUM |-> "(yellow circle)",
     LOW |-> "(blue circle)"]

\* severity.value.upper()
UpperValue == [critical |-> "CRITICAL", high |-> "HIGH", medium |-> "MEDIUM", low |-> "LOW"]

\* severity_groups: severity |-> its findings in input order, for the severities present
severity_groups(ps) ==
    [sev \in {ps[i].severity : i \in DOMAIN ps} |->
        LET same(p) == p.severity = sev IN SelectSeq(ps, same)]

\* the loop over the severities running from LOW up
SeverityOrder_ascending == <<"LOW", "MEDIUM", "HIGH", "CRITICAL">>

\* the list the `for severity in [...]` loop runs over
SeverityOrder == <<"CRITICAL", "HIGH", "MEDIUM", "LOW">>

\* the entries appended for one finding
ProblemLines(p) ==
    <<Line(LocationTemplate, <<p.file_path, p.line_number, p.column>>),
      Line(ProblemTemplate, <<p.description>>),
      Line(SolutionTemplate, <<p.solution>>)>>
    \o (IF p.code_snippet # <<>> THEN <<Line(CodeTemplate, <<p.code_snippet>>)>> ELSE <<>>)
    \o <<Line("", <<>>)>>

RECURSIVE GroupLines(_, _)
GroupLines(group, i) ==
    IF i > Len(group) THEN <<>> ELSE ProblemLines(group[i]) \o GroupLines(group, i + 1)

RECURSIVE SeverityLoop(_, _)
SeverityLoop(groups, k) ==
    IF k > Len(SeverityOrder) THEN <<>>
    ELSE LET severity == SeverityOrder[k]
         IN (IF severity \in DOMAIN groups
             THEN <<Line(HeaderTemplate,
                         <<severity_icons[severity], UpperValue[ProblemSeverity[severity]],
                           Len(groups[severity])>>)>>
                  \o GroupLines(groups[severity], 1)
             ELSE <<>>)
            \o SeverityLoop(groups, k + 1)

format_output_text(ps) ==
    IF ps = <<>> THEN <<SuccessLine>>
    ELSE <<Line(FoundTemplate, <<Len(ps)>>)>> \o SeverityLoop(severity_groups(ps), 1)

----------------------------------------------------------------------------
(* project_health.py *)

\* a defaultdict(int): reading an absent key gives 0
EmptyDict == [k \in {} |-> 0]
Get(d, k) == IF k \in DOMAIN d THEN d[k] ELSE 0
Bump(d, k) == IF k \in DOMAIN d THEN [d EXCEPT ![k] = @ + 1] ELSE d @@ (k :> 1)

\* os.path.splitext(p)[1]: from the last dot, if it lies after the last separator
\* and some character of the name before it is not a dot
SplitExt(p) ==
    LET sepIndex == RFind1(p, S_slash)
        dotIndex == RFind1(p, S_dot)
    IN IF /\ dotIndex > sepIndex
          /\ \E k \in (sepIndex + 1)..(dotIndex - 1) : p[k] # "."
       THEN SubSeq(p, dotIndex, Len(p))
       ELSE <<>>

lang_map ==
    (E_py :> "Python") @@ (E_js :> "JavaScript") @@ (E_ts :> "TypeScript") @@
    (E_java :> "Java") @@ (E_cpp :> "C++") @@ (E_c :> "C") @@ (E_go :> "Go") @@
    (E_rs :> "Rust") @@ (E_rb :> "Ruby") @@ (E_php :> "PHP") @@ (E_cs :> "C#") @@
    (E_swift :> "Swift") @@ (E_kt :> "Kotlin")

Language(file_path) ==
    IF SplitExt(file_path) \in DOMAIN lang_map THEN lang_map[SplitExt(file_path)] ELSE "Other"

InitialStats(ps) ==
    [total_problems |-> Len(ps), by_severity |-> EmptyDict, by_type |-> EmptyDict,
     by_language |-> EmptyDict, files_analyzed |-> {}, files_with_problems |-> {}]

\* one iteration of `for problem in problems`
AddProblem(st, problem) ==
    [st EXCEPT
        !.by_severity = Bump(@, ProblemSeverity[problem.severity]),
        !.by_type = Bump(@, problem.problem_type),
        !.by_language = Bump(@, Language(problem.file_path)),
        !.files_analyzed = @ \cup {problem.file_path},
        !.files_with_problems =
            IF problem.severity # "LOW" \/ problem.problem_type # "empty_file"
            THEN @ \cup {problem.file_path} ELSE @]

RECURSIVE StatsLoop(_, _, _)
StatsLoop(st, ps, i) ==
    IF i > Len(ps) THEN st ELSE StatsLoop(AddProblem(st, ps[i]), ps, i + 1)

\* the statistics analyze_project_health builds from the finding list
analyze_project_health(ps) == StatsLoop(InitialStats(ps), ps, 1)

\* the weights with high findings counted 4 instead of 5
WeightedScore_high4(st) ==
    Get(st.by_severity, "critical") * 10 + Get(st.by_severity, "high") * 4
    + Get(st.by_severity, "medium") * 2 + Get(st.by_severity, "low") * 1

\* the weights of calculate_health_score
WeightedScore(st) ==
    Get(st.by_severity, "critical") * 10 + Get(st.by_severity, "high") * 5
    + Get(st.by_severity, "medium") * 2 + Get(st.by_severity, "low") * 1

\* calculate_health_score, in tenths of a point.  The source evaluates
\* 100 - (weighted_score / max_possible * 100) in binary floating point and
\* rounds it to one decimal.  The exact value is num/den tenths below; it is
\* never negative, so max(0, .) leaves it alone.  Off a tie the nearest tenth
\* is returned.  On an exact tie (x.x5) the float quotient is not exact and
\* the computed value falls on either side of the tie, so either neighbouring
\* tenth can be the result (e.g. 3 critical, 3 high, 2 medium: 38.7).
HealthScoreResults(st) ==
    IF st.total_problems = 0 THEN {1000}
    ELSE LET max_possible == st.total_problems * 10
             num == 1000 * max_possible - 1000 * WeightedScore(st)
             q   == num \div max_possible
             rem == num % max_possible
         IN IF num <= 0 THEN {0}
            ELSE IF 2 * rem < max_possible THEN {q}
            ELSE IF 2 * rem > max_possible THEN {q + 1}
            ELSE {q, q + 1}

----------------------------------------------------------------------------
(* Inputs: paths, file contents and the conditions a file is read under *)

MaxLines == 2       \* lines per file
MaxProblems == 3    \* findings in a list taken in every order
MaxCount == 8       \* findings in a list handed to the health statistics
MaxFiles == 2       \* entries of a directory tree

T_np == <<"n", "p", ".", "a", " ">>
T_pd == <<"p", "d", ".", "a", " ">>
T_plt == <<"p", "l", "t", ".", "a", " ">>
T_import_numpy == <<"i", "m", "p", "o", "r", "t", " ", "n", "u", "m", "p", "y", " ", "a", "s", " ", "n", "p", " ">>
T_import_pandas == <<"i", "m", "p", "o", "r", "t", " ", "p", "a", "n", "d", "a", "s", " ", "a", "s", " ", "p", "d", " ">>
T_import_pyplot == <<"i", "m", "p", "o", "r", "t", " ", "m", "a", "t", "p", "l", "o", "t", "l", "i", "b", ".", "p", "y", "p", "l", "o", "t", " ", "a", "s", " ", "p", "l", "t", " ">>
T_x == <<"x">>
T_space == <<" ">>
T_var == <<"v", "a", "r">>
T_const == <<"c", "o", "n", "s", "t">>
T_def == <<"d", "e", "f", " ", "f", "(">>
T_print == <<"p", "r", "i", "n", "t", "(", "x", ")">>
T_any == <<"x", ":", " ", "a", "n", "y">>
T_var_x == <<"v", "a", "r", " ", "x">>
T_todo == <<"#", " ", "T", "O", "D", "O">>
T_open == <<"p", "r", "i", "n", "t", "(">>

P_a == <<"a">>
P_a_xyz == <<"a", ".", "x", "y", "z">>
P_README == <<"R", "E", "A", "D", "M", "E">>
P_hidden == <<".", "p", "y">>
P_upper == <<"A", ".", "P", "Y">>
P_nested == <<"s", "r", "c", "/", "a", ".", "p", "y">>
P_dotted == <<"v", "1", ".", "2", "/", "n", "o", "t", "e", "s">>

\* line bodies: the empty body, one token, or two tokens side by side
Singles(vocab) == {<<>>} \cup vocab
Pairs(first, second) == {a \o b : a \in first, b \in second}

\* what readlines() can return for a file of at most n lines with these bodies:
\* every line ends with its terminator, except possibly a non-empty last line
\* when bare is TRUE; [] is the zero-byte file
Contents(bodies, n, bare) ==
    LET terminated(bs) == [i \in 1..Len(bs) |-> bs[i] \o S_newline]
        unterminated(bs) ==
            [i \in 1..Len(bs) |-> IF i = Len(bs) THEN bs[i] ELSE bs[i] \o S_newline]
        shapes == UNION {[1..k -> bodies] : k \in 1..n}
    IN {<<>>}
       \cup {terminated(bs) : bs \in shapes}
       \cup {unterminated(bs) : bs \in {b \in shapes : bare /\ b[Len(b)] # <<>>}}

\* what ast.parse does with a file of n lines; 0 stands for a missing position
ParseOk == [kind |-> "ok", lineno |-> 0, offset |-> 0, msg |-> ""]
ParseOutcomes(n) ==
    {ParseOk}
    \cup {[kind |-> "syntax", lineno |-> l, offset |-> c, msg |-> "invalid syntax"] :
            l \in 0..(n + 1), c \in {0, 5}}
    \cup {[kind |-> "fault", lineno |-> 0, offset |-> 0, msg |-> "source code string cannot contain null bytes"]}

\* the conditions a regular file is read under
AllConditions ==
    [readable : BOOLEAN, enc : {"utf8", "latin1"}, reopenFails : BOOLEAN]
Utf8Readable == {[readable |-> TRUE, enc |-> "utf8", reopenFails |-> FALSE]}

MissingFile(p) ==
    [path |-> p, kind |-> "missing", readable |-> FALSE, enc |-> "utf8",
     reopenFails |-> FALSE, lines |-> <<>>, parse |-> ParseOk]

Directory(p) ==
    [path |-> p, kind |-> "dir", readable |-> TRUE, enc |-> "utf8",
     reopenFails |-> FALSE, lines |-> <<>>, parse |-> ParseOk]

\* regular files: a zero-byte file decodes in any encoding; the parser only
\* sees a non-empty utf-8 Python file that can be opened again
RegularFiles(paths, contents, conditions, parses) ==
    {[path |-> p, kind |-> "file", readable |-> c.readable, enc |-> c.enc,
      reopenFails |-> c.reopenFails, lines |-> ls, parse |-> e] :
        p \in paths, ls \in contents, c \in conditions, e \in parses}

WellFormedFile(f) ==
    /\ f.lines = <<>> => f.enc = "utf8"
    /\ ~f.readable => f.enc = "utf8" /\ ~f.reopenFails
    /\ f.parse.kind = "syntax" => f.parse.lineno <= Len(f.lines) + 1
    /\ f.parse.lineno = 0 => f.parse.offset = 0
    /\ f.parse # ParseOk =>
          /\ PathSuffix(f.path) = E_py
          /\ f.lines # <<>> /\ f.readable /\ f.enc = "utf8" /\ ~f.reopenFails

RegisteredPaths == {P_a \o e : e \in DOMAIN supported_extensions}
OtherPaths == {P_a_xyz, P_README, P_hidden, P_upper, P_dotted}

DispatchPaths == RegisteredPaths \cup OtherPaths \cup {P_nested}
DispatchFiles(n) ==
    {MissingFile(p) : p \in DispatchPaths} \cup {Directory(p) : p \in DispatchPaths}
    \cup {f \in RegularFiles(DispatchPaths, Contents(Singles({T_x, T_def}), n, TRUE),
                             AllConditions, ParseOutcomes(n)) : WellFormedFile(f)}

NoStats == InitialStats(<<>>)

InitFile(files) ==
    /\ file \in files
    /\ pc = "start"
    /\ exc = "none"
    /\ ruleSet = "none"
    /\ found = <<>>
    /\ problems = <<>>
    /\ minSeverity = "none"
    /\ output = <<>>
    /\ stats = NoStats
    /\ score = -1
    /\ config = DefaultConfig
    /\ tree = <<>>

Init == InitFile(DispatchFiles(MaxLines))

----------------------------------------------------------------------------
(* Operations *)

\* analyzer.analyze_file(file.path)
AnalyzeFile ==
    /\ pc = "start"
    /\ \E r \in {analyze_file(file)} :
          /\ exc' = r.exc
          /\ pc' = IF r.exc = "none" THEN "returned" ELSE "raised"
          /\ found' = r.value
          /\ problems' = r.value
    /\ ruleSet' = InvokedRuleSet(file)
    /\ UNCHANGED <<file, minSeverity, output, stats, score, config, tree>>

\* analyzer.analyze_directory(directory) over the entries of the tree
AnalyzeDirectory ==
    /\ pc = "start"
    /\ \E ps \in {analyze_directory(tree)} :
          /\ found' = ps
          /\ problems' = ps
    /\ pc' = "returned"
    /\ UNCHANGED <<file, exc, ruleSet, minSeverity, output, stats, score, config, tree>>

\* main(): `if args.severity:` problems = [p for p in problems if ...]
FilterSeverity ==
    /\ pc = "returned"
    /\ \E level \in DOMAIN severity_levels :
          /\ minSeverity' = level
          /\ problems' = FilterBySeverity(problems, level)
    /\ pc' = "filtered"
    /\ UNCHANGED <<file, exc, ruleSet, found, output, stats, score, config, tree>>

\* main(): output = format_output(problems, "json"), with or without a filter before
FormatJson ==
    /\ pc \in {"returned", "filtered"}
    /\ output' = format_output_json(problems)
    /\ pc' = "formatted"
    /\ UNCHANGED <<file, exc, ruleSet, found, problems, minSeverity, stats, score, config, tree>>

\* main(): output = format_output(problems, "text"), with or without a filter before
FormatText ==
    /\ pc \in {"returned", "filtered"}
    /\ output' = format_output_text(problems)
    /\ pc' = "printed"
    /\ UNCHANGED <<file, exc, ruleSet, found, problems, minSeverity, stats, score, config, tree>>

\* analyze_project_health: the statistics of the finding list
ComputeStats ==
    /\ pc = "returned"
    /\ stats' = analyze_project_health(problems)
    /\ pc' = "stats"
    /\ UNCHANGED <<file, exc, ruleSet, found, problems, minSeverity, output, score, config, tree>>

\* print_health_report: health_score = calculate_health_score(stats)
CalculateHealthScore ==
    /\ pc = "stats"
    /\ score' \in HealthScoreResults(stats)
    /\ pc' = "scored"
    /\ UNCHANGED <<file, exc, ruleSet, found, problems, minSeverity, output, stats, config, tree>>

Next == AnalyzeFile

Spec == Init /\ [][Next]_vars

----------------------------------------------------------------------------
(* Properties of the dispatcher, checked under Spec *)

Called == pc \in {"returned", "raised"}

CountOfType(ps, type) == Cardinality({i \in DOMAIN ps : ps[i].problem_type = type})

\* C1: for every input path, analyze_file returns its findings and never
\* raises; an I/O error while reading surfaces as a finding, not an exception.
C1_NeverRaises == Called => pc = "returned" /\ exc = "none"

\* C2: a path that does not exist gives exactly one finding, CRITICAL
\* file_not_found at line 1, whatever its extension; an existing path whose
\* extension is not registered gives exactly one finding, LOW unsupported_file
\* at line 1; in both cases no rule set is invoked.
C2_MissingAndUnsupported ==
    Called =>
        /\ file.kind = "missing" =>
              /\ pc = "returned" /\ ruleSet = "none" /\ Len(found) = 1
              /\ found[1].severity = "CRITICAL"
              /\ found[1].problem_type = "file_not_found"
              /\ found[1].line_number = 1
        /\ (file.kind # "missing" /\ PathSuffix(file.path) \notin DOMAIN supported_extensions) =>
              /\ pc = "returned" /\ ruleSet = "none" /\ Len(found) = 1
              /\ found[1].severity = "LOW"
              /\ found[1].problem_type = "unsupported_file"
              /\ found[1].line_number = 1

\* a missing path with a registered extension was analysed
C2_Witness ==
    /\ pc = "returned" /\ file.kind = "missing" /\ file.path = P_a \o E_py
    /\ found[1].problem_type = "file_not_found"

\* C3: an existing zero-byte file of any registered extension gives exactly
\* one finding, MEDIUM empty_file.  Stated for files that can be opened, so
\* that a violation is not the propagated open() error of C1.
C3_ZeroByteIsEmptyFile ==
    (/\ Called /\ file.kind = "file" /\ file.readable /\ file.lines = <<>>
     /\ PathSuffix(file.path) \in DOMAIN supported_extensions) =>
        /\ pc = "returned" /\ Len(found) = 1
        /\ found[1].severity = "MEDIUM"
        /\ found[1].problem_type = "empty_file"

\* C4: a non-empty Python file that the parser rejects gives exactly one
\* syntax_error finding; it is CRITICAL and its line is the line the parser
\* reports, line 1 (and column 1) when the parser reports no position.
C4_SyntaxError ==
    (/\ Called /\ file.kind = "file" /\ PathSuffix(file.path) = E_py
     /\ file.lines # <<>> /\ file.parse.kind = "syntax") =>
        /\ pc = "returned"
        /\ CountOfType(found, "syntax_error") = 1
        /\ \A i \in DOMAIN found :
              found[i].problem_type = "syntax_error" =>
                 /\ found[i].severity = "CRITICAL"
                 /\ found[i].line_number =
                       IF file.parse.lineno = 0 THEN 1 ELSE file.parse.lineno
                 /\ file.parse.lineno = 0 => found[i].column = 1

\* the parser rejected a two-line file at its second line
C4_Witness ==
    /\ pc = "returned" /\ PathSuffix(file.path) = E_py /\ Len(file.lines) = 2
    /\ file.parse.kind = "syntax" /\ file.parse.lineno = 2
    /\ CountOfType(found, "syntax_error") = 1

----------------------------------------------------------------------------
(* Python files that use and import the known aliases, checked under SpecImports *)

\* lines that import a library, use one alias, use two aliases, or hold an
\* alias as the tail of a longer name
ImportBodies ==
    Singles({T_np, T_pd, T_plt, T_import_numpy, T_import_pandas, T_import_pyplot})
    \cup Pairs({T_np, T_pd, T_plt}, {T_np, T_pd, T_plt})
    \cup Pairs({T_x}, {T_np, T_pd, T_plt})
ImportParses ==
    {ParseOk, [kind |-> "syntax", lineno |-> 1, offset |-> 5, msg |-> "invalid syntax"]}
ImportFiles(n) ==
    {f \in RegularFiles({P_a \o E_py}, Contents(ImportBodies, n, FALSE), Utf8Readable,
                        ImportParses) : WellFormedFile(f)}

InitImports == InitFile(ImportFiles(MaxLines))
SpecImports == InitImports /\ [][Next]_vars

Aliases == {"np", "pd", "plt"}
AliasToken(a) == CASE a = "np" -> S_np [] a = "pd" -> S_pd [] a = "plt" -> S_plt
AliasDescription(a) ==
    CASE a = "np" -> NumpyDescription [] a = "pd" -> PandasDescription
      [] a = "plt" -> PyplotDescription
\* a qualifying import of the alias's library occurs on the lines before line i
ImportedBefore(a, lines, i) ==
    LET before == Join(SubSeq(lines, 1, i - 1), S_newline)
    IN CASE a = "np" -> NumpyImported(before) [] a = "pd" -> PandasImported(before)
         [] a = "plt" -> PyplotImported(before)
\* the missing_import findings for alias a on line i
MissingImportCount(ps, a, i) ==
    Cardinality({k \in DOMAIN ps :
        /\ ps[k].problem_type = "missing_import" /\ ps[k].severity = "HIGH"
        /\ ps[k].line_number = i /\ ps[k].description = AliasDescription(a)})

\* the lines of a Python file whose line checks ran
PythonScanned ==
    /\ pc = "returned" /\ file.kind = "file" /\ PathSuffix(file.path) = E_py
    /\ file.lines # <<>> /\ ~file.reopenFails

\* C5: for each alias np, pd, plt: a line that contains the alias while no
\* qualifying import occurs on a strictly earlier line yields exactly one
\* HIGH missing_import finding for that alias on that line; once the import
\* has occurred on an earlier line, no line yields one for that alias.
C5_MissingImportPerAlias ==
    PythonScanned =>
        \A a \in Aliases : \A i \in 1..Len(file.lines) :
            /\ (Contains(file.lines[i], AliasToken(a)) /\ ~ImportedBefore(a, file.lines, i))
                  => MissingImportCount(found, a, i) = 1
            /\ ImportedBefore(a, file.lines, i) => MissingImportCount(found, a, i) = 0

----------------------------------------------------------------------------
(* Python files with lines around the length limit, checked under SpecLongLines *)

T_limit == [i \in 1..MaxLineLength |-> "a"]

\* lines of 0, 1, 2, 88, 89 and 176 characters, with and without trailing blanks
LongLineBodies ==
    Singles({T_limit, T_x, T_space}) \cup Pairs({T_limit, T_x, T_space}, {T_limit, T_x, T_space})
LongLineFiles(n) ==
    {f \in RegularFiles({P_a \o E_py}, Contents(LongLineBodies, n, TRUE), Utf8Readable,
                        ImportParses) : WellFormedFile(f)}

InitLongLines == InitFile(LongLineFiles(MaxLines))
SpecLongLines == InitLongLines /\ [][Next]_vars

\* the length of s up to its last character that is not whitespace
TrimmedLength(s) ==
    IF \E k \in 1..Len(s) : ~IsSpace(s[k])
    THEN CHOOSE k \in 1..Len(s) : ~IsSpace(s[k]) /\ \A j \in (k + 1)..Len(s) : IsSpace(s[j])
    ELSE 0

LongLineFindings(ps, i) ==
    {k \in DOMAIN ps : ps[k].problem_type = "long_line" /\ ps[k].line_number = i}

\* C10: in a Python file a line gives exactly one long_line finding, LOW with
\* column 89, iff its length without trailing whitespace (line terminator
\* included) exceeds 88: none at 88 characters, exactly one at 89.
C10_LongLine ==
    PythonScanned =>
        \A i \in 1..Len(file.lines) :
            /\ Cardinality(LongLineFindings(found, i)) =
                  (IF TrimmedLength(file.lines[i]) > 88 THEN 1 ELSE 0)
            /\ \A k \in LongLineFindings(found, i) :
                  found[k].severity = "LOW" /\ found[k].column = 89

\* a file with an 88-character line followed by an 89-character line: one finding, on line 2
C10_Witness ==
    /\ PythonScanned /\ Len(file.lines) = 2
    /\ TrimmedLength(file.lines[1]) = 88 /\ Len(file.lines[1]) > 88
    /\ TrimmedLength(file.lines[2]) = 89
    /\ LongLineFindings(found, 1) = {} /\ Cardinality(LongLineFindings(found, 2)) = 1

----------------------------------------------------------------------------
(* JavaScript and TypeScript files, checked under SpecScript *)

ScriptBodies ==
    Singles({T_var, T_const, T_x, T_space})
    \cup Pairs({T_var, T_const, T_x, T_space}, {T_var, T_const, T_x, T_space})
ScriptFiles(n) ==
    {f \in RegularFiles({P_a \o E_js, P_a \o E_ts}, Contents(ScriptBodies, n, TRUE),
                        Utf8Readable, {ParseOk}) : WellFormedFile(f)}

InitScript == InitFile(ScriptFiles(MaxLines))
SpecScript == InitScript /\ [][Next]_vars

\* the keyword var (not part of a longer word) directly followed by whitespace
HasVarKeyword(s) ==
    \E p \in 1..Len(s) :
        /\ p + 3 <= Len(s)
        /\ s[p] = "v" /\ s[p + 1] = "a" /\ s[p + 2] = "r"
        /\ p = 1 \/ ~IsWord(s[p - 1])
        /\ IsSpace(s[p + 3])

VarFindings(ps, i) ==
    {k \in DOMAIN ps : ps[k].problem_type = "var_declaration" /\ ps[k].line_number = i}

ScriptScanned ==
    /\ pc = "returned" /\ file.kind = "file"
    /\ PathSuffix(file.path) \in {E_js, E_ts} /\ file.lines # <<>>

\* C9: in a JavaScript or TypeScript file every line with the keyword var
\* followed by whitespace gives a MEDIUM var_declaration finding numbered
\* with the line's 1-based index, and a line without it gives none.
C9_VarDeclaration ==
    ScriptScanned =>
        \A i \in 1..Len(file.lines) :
            /\ HasVarKeyword(file.lines[i]) => VarFindings(found, i) # {}
            /\ ~HasVarKeyword(file.lines[i]) => VarFindings(found, i) = {}
            /\ \A k \in VarFindings(found, i) : found[k].severity = "MEDIUM"

\* a TypeScript file whose first line has no var keyword and whose second line has one
C9_Witness ==
    /\ ScriptScanned /\ PathSuffix(file.path) = E_ts /\ Len(file.lines) = 2
    /\ file.lines[1] = T_const \o T_x \o S_newline
    /\ HasVarKeyword(file.lines[2])
    /\ VarFindings(found, 1) = {} /\ VarFindings(found, 2) # {}

----------------------------------------------------------------------------
(* The filter and the structured output on arbitrary finding lists, checked *)
(* under SpecReport                                                         *)

NoFile == MissingFile(<<>>)

\* the lists of at most n findings drawn from ps
ProblemLists(ps, n) == UNION {[1..k -> ps] : k \in 0..n}

\* sample findings: every severity, on two lines, as the rule sets shape them
SampleType(sev) ==
    CASE sev = "CRITICAL" -> "syntax_error" [] sev = "HIGH" -> "missing_import"
      [] sev = "MEDIUM" -> "todo_comment" [] sev = "LOW" -> "print_statement"
SampleProblems ==
    {CodeProblem(P_nested, l, l - 1, sev, SampleType(sev), "description of " \o SampleType(sev),
                 "solution", IF sev = "CRITICAL" THEN <<>> ELSE T_x) :
        sev \in Severities, l \in 1..2}

InitProblems(lists) ==
    /\ file = NoFile
    /\ pc = "returned"
    /\ exc = "none"
    /\ ruleSet = "none"
    /\ found \in lists
    /\ problems = found
    /\ minSeverity = "none"
    /\ output = <<>>
    /\ stats = NoStats
    /\ score = -1
    /\ config = DefaultConfig
    /\ tree = <<>>

InitReport == InitProblems(ProblemLists(SampleProblems, MaxProblems))
NextReport == FilterSeverity \/ FormatJson
SpecReport == InitReport /\ [][NextReport]_vars

\* the total order LOW < MEDIUM < HIGH < CRITICAL
Rank == [LOW |-> 1, MEDIUM |-> 2, HIGH |-> 3, CRITICAL |-> 4]
FloorRank == [low |-> 1, medium |-> 2, high |-> 3, critical |-> 4]

\* a is b with some elements left out, order kept
RECURSIVE IsSubSeq(_, _)
IsSubSeq(a, b) ==
    IF a = <<>> THEN TRUE
    ELSE IF b = <<>> THEN FALSE
    ELSE IF Head(a) = Head(b) THEN IsSubSeq(Tail(a), Tail(b))
    ELSE IsSubSeq(a, Tail(b))

\* the findings of ps at or above the floor, in input order
AtOrAbove(ps, floor) ==
    LET keep(p) == Rank[p.severity] >= FloorRank[floor]
    IN SelectSeq(ps, keep)

\* C6: the filter keeps a finding iff its severity is at or above the floor
\* in LOW < MEDIUM < HIGH < CRITICAL and keeps the input order; so the list
\* filtered at HIGH is a sub-sequence of the list filtered at MEDIUM, which
\* is a sub-sequence of the unfiltered list.
C6_FilterMonotonic ==
    pc = "filtered" =>
        /\ problems = AtOrAbove(found, minSeverity)
        /\ minSeverity = "high" => IsSubSeq(problems, FilterBySeverity(found, "medium"))
        /\ minSeverity = "medium" => IsSubSeq(problems, found)

\* a list of three findings filtered at HIGH: some kept, some dropped
C6_Witness ==
    /\ pc = "filtered" /\ minSeverity = "high" /\ Len(found) = 3
    /\ Len(problems) = 2 /\ found[2].severity = "MEDIUM"
    /\ problems = <<found[1], found[3]>>

FindingFields ==
    {"file_path", "line_number", "column", "severity", "problem_type", "description",
     "solution", "code_snippet"}
LowercaseName == [LOW |-> "low", MEDIUM |-> "medium", HIGH |-> "high", CRITICAL |-> "critical"]

\* C8: the structured output is an array with one object per finding, in
\* input order, each with exactly the eight finding fields and the severity
\* as its lowercase name; parsed back it is field-equal to the input.
C8_JsonRoundTrip ==
    pc = "formatted" =>
        /\ Len(output) = Len(problems)
        /\ \A i \in 1..Len(problems) :
              /\ DOMAIN output[i] = FindingFields
              /\ output[i].severity = LowercaseName[problems[i].severity]
              /\ \A k \in FindingFields \ {"severity"} : output[i][k] = problems[i][k]
        /\ ParseJson(output) = problems

\* three findings of different severities were serialized
C8_Witness ==
    /\ pc = "formatted" /\ Len(problems) = 3 /\ Len(output) = 3
    /\ problems[1].severity = "LOW" /\ problems[2].severity = "CRITICAL"
    /\ problems[3].severity = "HIGH"
    /\ output[2].severity = "critical"

----------------------------------------------------------------------------
(* The health statistics and score on arbitrary finding lists, checked      *)
(* under SpecHealth                                                         *)

Counted(sev) ==
    CodeProblem(P_nested, 1, 0, sev, SampleType(sev), "description", "solution", <<>>)
CountedProblems == {Counted(sev) : sev \in Severities}

\* the list of c critical, h high, m medium and l low findings, in that order
Census(c, h, m, l) ==
    [i \in 1..c |-> Counted("CRITICAL")] \o [i \in 1..h |-> Counted("HIGH")]
    \o [i \in 1..m |-> Counted("MEDIUM")] \o [i \in 1..l |-> Counted("LOW")]

\* every list of at most short findings in every order, and one list for every
\* census of at most long findings
HealthLists(short, long) ==
    ProblemLists(CountedProblems, short)
    \cup {Census(c, h, m, l) : c \in 0..long, h \in 0..long, m \in 0..long,
                               l \in 0..long}

InitHealth ==
    InitProblems({ps \in HealthLists(MaxProblems, MaxCount) : Len(ps) <= MaxCount})
NextHealth == ComputeStats \/ CalculateHealthScore
SpecHealth == InitHealth /\ [][NextHealth]_vars

SeverityCount(ps, sev) == Cardinality({i \in DOMAIN ps : ps[i].severity = sev})

\* C7: the score is exactly 100 for no findings; otherwise it is
\* max(0, 100 - (10*critical + 5*high + 2*medium + low) / (10*total) * 100)
\* rounded to one decimal (within half a tenth of the exact value), the four
\* severity counts summing to the total; N >= 1 findings that are all
\* CRITICAL score exactly 0, and every score lies in [0, 100].
C7_HealthScore ==
    pc = "scored" =>
        LET total    == Len(found)
            weighted == 10 * SeverityCount(found, "CRITICAL") + 5 * SeverityCount(found, "HIGH")
                        + 2 * SeverityCount(found, "MEDIUM") + SeverityCount(found, "LOW")
            \* score - exact, times 10*total (score and exact in tenths)
            error    == score * 10 * total - (1000 * 10 * total - 1000 * weighted)
        IN /\ stats.total_problems = total
           /\ Get(stats.by_severity, "critical") + Get(stats.by_severity, "high")
              + Get(stats.by_severity, "medium") + Get(stats.by_severity, "low") = total
           /\ total = 0 => score = 1000
           /\ total > 0 => 2 * error <= 10 * total /\ -2 * error <= 10 * total
           /\ (total > 0 /\ SeverityCount(found, "CRITICAL") = total) => score = 0
           /\ 0 <= score /\ score <= 1000

\* 3 critical, 3 high and 2 medium findings: the exact value 38.75 is scored 38.7
C7_Witness ==
    /\ pc = "scored" /\ Len(found) = 8
    /\ SeverityCount(found, "CRITICAL") = 3 /\ SeverityCount(found, "HIGH") = 3
    /\ SeverityCount(found, "MEDIUM") = 2
    /\ score = 387


----------------------------------------------------------------------------
(* Directory trees, checked under SpecWalk *)

\* a regular file at path p with the given lines, read under condition c
FileAt(p, ls, c) ==
    [path |-> p, kind |-> "file", readable |-> c.readable, enc |-> c.enc,
     reopenFails |-> c.reopenFails, lines |-> ls, parse |-> ParseOk]

Unreadable == [readable |-> FALSE, enc |-> "utf8", reopenFails |-> FALSE]
Readable == [readable |-> TRUE, enc |-> "utf8", reopenFails |-> FALSE]
Latin1 == [readable |-> TRUE, enc |-> "latin1", reopenFails |-> FALSE]

\* what a tree can hold: files with and without findings, a zero-byte file,
\* files that cannot be opened, a file of no registered type, a directory and
\* a dangling link
WalkEntries ==
    {FileAt(P_a \o E_py, <<T_print \o S_newline>>, Readable),
     FileAt(P_a \o E_py, <<>>, Unreadable),
     FileAt(P_a \o E_py, <<T_x \o S_newline>>, Latin1),
     FileAt(P_nested, <<>>, Readable),
     FileAt(P_a \o E_js, <<T_var_x \o S_newline>>, Readable),
     FileAt(P_a \o E_js, <<>>, Unreadable),
     FileAt(P_a \o E_ts, <<T_any \o S_newline, T_var_x>>, Readable),
     FileAt(P_a \o E_c, <<T_x \o S_newline>>, Readable),
     FileAt(P_a \o E_c, <<>>, Unreadable),
     FileAt(P_a \o E_go, <<>>, Unreadable),
     FileAt(P_a_xyz, <<T_x>>, Readable),
     Directory(P_a \o E_rb),
     MissingFile(P_a \o E_java)}

\* the listings of at most n entries, every path occurring once
Trees(n) ==
    {t \in UNION {[1..k -> WalkEntries] : k \in 0..n} :
        \A i, j \in DOMAIN t : i # j => t[i].path # t[j].path}

InitWalk ==
    /\ tree \in Trees(MaxFiles)
    /\ file = NoFile
    /\ pc = "start"
    /\ exc = "none"
    /\ ruleSet = "none"
    /\ found = <<>>
    /\ problems = <<>>
    /\ minSeverity = "none"
    /\ output = <<>>
    /\ stats = NoStats
    /\ score = -1
    /\ config = DefaultConfig

NextWalk == AnalyzeDirectory \/ ComputeStats
SpecWalk == InitWalk /\ [][NextWalk]_vars

Walked == pc \in {"returned", "stats"}

\* the number of findings entry f contributes to the walk
Contribution(f) ==
    IF ~Visited(f) THEN 0
    ELSE IF analyze_file(f).exc = "none" THEN Len(analyze_file(f).value)
    ELSE 1

\* the number of findings contributed by the entries before entry i
RECURSIVE Offset(_, _)
Offset(t, i) == IF i = 1 THEN 0 ELSE Offset(t, i - 1) + Contribution(t[i - 1])

\* C11: when the analysis of a visited file raises, the file contributes
\* exactly one HIGH analysis_error finding with its path and line 1, and the
\* walk continues; the findings of every other visited file are in the
\* result as analyze_file returned them, contiguous per file, in visitation
\* order, and nothing else is.
C11_WalkIsolatesFailures ==
    Walked =>
        /\ Len(found) = Offset(tree, Len(tree) + 1)
        /\ \A i \in 1..Len(tree) :
              Visited(tree[i]) =>
                 LET r == analyze_file(tree[i])
                     off == Offset(tree, i)
                 IN IF r.exc = "none"
                    THEN \A k \in 1..Len(r.value) : found[off + k] = r.value[k]
                    ELSE /\ found[off + 1].severity = "HIGH"
                         /\ found[off + 1].problem_type = "analysis_error"
                         /\ found[off + 1].file_path = tree[i].path
                         /\ found[off + 1].line_number = 1

\* an unreadable a.py before a.ts: the error finding, then the two findings of a.ts
C11_Witness ==
    /\ pc = "returned" /\ Len(tree) = 2
    /\ tree[1].path = P_a \o E_py /\ ~tree[1].readable
    /\ tree[2].path = P_a \o E_ts
    /\ Len(found) = 3
    /\ found[1].problem_type = "analysis_error"
    /\ found[2].problem_type = "var_declaration" /\ found[3].problem_type = "any_type"


----------------------------------------------------------------------------
(* Analyzers built from a configuration file, checked under SpecConfig *)

T_println == <<"S", "y", "s", "t", "e", "m", ".", "o", "u", "t", ".", "p", "r", "i", "n", "t", "l", "n", "(", "x", ")">>
T_printf == <<"p", "r", "i", "n", "t", "f", "(", "x", ")">>

Languages == {"python", "javascript", "typescript", "java", "c_cpp"}

\* what can lie at config_path: nothing, a file that is not JSON, or a
\* document that enables and disables rule sets
ConfigFiles ==
    {[kind |-> "absent", document |-> DefaultConfig],
     [kind |-> "malformed", document |-> DefaultConfig]}
    \cup {[kind |-> "document",
           document |-> [DefaultConfig EXCEPT !.analysis_rules =
                            [l \in Languages |-> [enabled |-> l \in on]]]] :
            on \in SUBSET Languages}

\* one file with findings for every rule set that has rules, and a stub's file
ConfigEntries ==
    {FileAt(P_a \o E_py, <<T_print \o S_newline>>, Readable),
     FileAt(P_a \o E_js, <<T_var_x \o S_newline>>, Readable),
     FileAt(P_a \o E_ts, <<T_any \o S_newline>>, Readable),
     FileAt(P_a \o E_java, <<T_println \o S_newline>>, Readable),
     FileAt(P_a \o E_c, <<T_printf \o S_newline>>, Readable),
     FileAt(P_a \o E_cpp, <<T_printf \o S_newline>>, Readable),
     FileAt(P_a \o E_go, <<T_x \o S_newline>>, Readable)}

\* AICodeAnalyzer(): the configuration is loaded; then one file is analysed,
\* by itself or as the only entry of a directory
InitConfig ==
    /\ config \in {load_config(cf) : cf \in ConfigFiles}
    /\ file \in ConfigEntries
    /\ tree = <<file>>
    /\ pc = "start"
    /\ exc = "none"
    /\ ruleSet = "none"
    /\ found = <<>>
    /\ problems = <<>>
    /\ minSeverity = "none"
    /\ output = <<>>
    /\ stats = NoStats
    /\ score = -1

NextConfig == AnalyzeFile \/ AnalyzeDirectory
SpecConfig == InitConfig /\ [][NextConfig]_vars

\* the analysis_rules key of the rule set registered for a suffix, "none" for
\* the rule sets the configuration has no key for
RuleLanguage(suffix) ==
    CASE suffix = E_py -> "python" [] suffix = E_js -> "javascript"
      [] suffix = E_ts -> "typescript" [] suffix = E_java -> "java"
      [] suffix \in {E_c, E_cpp} -> "c_cpp" [] OTHER -> "none"

Disabled(f) ==
    /\ RuleLanguage(PathSuffix(f.path)) \in DOMAIN config.analysis_rules
    /\ ~config.analysis_rules[RuleLanguage(PathSuffix(f.path))].enabled

\* the findings that no rule set makes
FileLevelTypes == {"file_not_found", "unsupported_file", "analysis_error"}

\* C12: when analysis_rules.<language>.enabled is false in the loaded
\* configuration, analyze_file and analyze_directory return no rule finding
\* for a file of that language, and its extension is still registered.
C12_DisabledRuleSetSkipped ==
    (pc = "returned" /\ Disabled(file)) =>
        /\ \A i \in DOMAIN found : found[i].problem_type \in FileLevelTypes
        /\ PathSuffix(file.path) \in DOMAIN supported_extensions


----------------------------------------------------------------------------
(* Files of every rule set that has rules, checked under SpecRules *)

PythonBodies == Singles({T_x, T_print, T_todo, T_open, T_np})
ScriptRuleBodies == Singles({T_x, T_var_x, T_any})
JavaBodies == Singles({T_x, T_println})
CBodies == Singles({T_x, T_printf})

\* the lines that leave a parenthesis open
Unclosed(ls) == {i \in DOMAIN ls : Strip(ls[i]) = T_open}

\* what ast.parse does with these lines: they are valid Python unless a
\* parenthesis stays open.  The position of that error depends on the
\* interpreter: the line of the first open parenthesis, or the line after the
\* last one, where the end of the input was met.
SourceParses(ls) ==
    IF Unclosed(ls) = {} THEN {ParseOk}
    ELSE {[kind |-> "syntax", lineno |-> l, offset |-> 6, msg |-> "'(' was never closed"] :
            l \in {CHOOSE i \in Unclosed(ls) : \A j \in Unclosed(ls) : i <= j}}
         \cup {[kind |-> "syntax", lineno |-> Len(ls) + 1, offset |-> 1,
                msg |-> "unexpected EOF while parsing"]}

\* Python files: utf-8 files with what the parser makes of them, files that
\* only decode as latin-1, and the zero-byte file
PythonRuleFiles(n) ==
    LET sources == Contents(PythonBodies, n, TRUE) \ {<<>>}
    IN UNION {{[FileAt(P_a \o E_py, ls, Readable) EXCEPT !.parse = e] : e \in SourceParses(ls)} :
                ls \in sources}
       \cup {FileAt(P_a \o E_py, ls, Latin1) : ls \in sources}
       \cup {FileAt(P_a \o E_py, <<>>, Readable)}

RuleFiles(n) ==
    PythonRuleFiles(n)
    \cup {FileAt(p, ls, Readable) :
            p \in {P_a \o E_js, P_a \o E_ts}, ls \in Contents(ScriptRuleBodies, n, TRUE)}
    \cup {FileAt(P_a \o E_java, ls, Readable) : ls \in Contents(JavaBodies, n, TRUE)}
    \cup {FileAt(P_a \o E_c, ls, Readable) : ls \in Contents(CBodies, n, TRUE)}

InitRules == InitFile(RuleFiles(MaxLines))
SpecRules == InitRules /\ [][Next]_vars

Parsed(f) == f.parse.kind = "ok" /\ f.enc = "utf8" /\ ~f.reopenFails

\* C13: for a non-empty Python file that parses and none of whose lines
\* uses np., pd. or plt., analyze_file returns no CRITICAL and no HIGH finding.
C13_GoodCodeNoCriticalHigh ==
    (/\ pc = "returned" /\ file.kind = "file" /\ PathSuffix(file.path) = E_py
     /\ file.lines # <<>> /\ Parsed(file)
     /\ \A i \in DOMAIN file.lines : \A a \in Aliases : ~Contains(file.lines[i], AliasToken(a)))
    => \A k \in DOMAIN found : found[k].severity \notin {"CRITICAL", "HIGH"}

\* a parsing file with a print call and a TODO comment: a LOW and a MEDIUM finding
C13_Witness ==
    /\ pc = "returned" /\ PathSuffix(file.path) = E_py /\ Parsed(file)
    /\ file.lines = <<T_print \o S_newline, T_todo \o S_newline>>
    /\ Len(found) = 2
    /\ found[1].severity = "LOW" /\ found[2].severity = "MEDIUM"


----------------------------------------------------------------------------
(* The human-readable report on arbitrary finding lists, checked under SpecText *)

NextText == FilterSeverity \/ FormatText
SpecText == InitReport /\ [][NextText]_vars

\* the positions of the entries of out made from a template, in ascending order
Positions(out, template) ==
    LET idx == {i \in DOMAIN out : out[i].template = template}
    IN [k \in 1..Cardinality(idx) |->
           CHOOSE i \in idx : Cardinality({j \in idx : j < i}) = k - 1]

\* the findings of ps of one severity, in input order
OfSeverity(ps, sev) == LET same(p) == p.severity = sev IN SelectSeq(ps, same)

\* ps regrouped: all CRITICAL findings, then HIGH, MEDIUM and LOW ones
Grouped(ps) ==
    OfSeverity(ps, "CRITICAL") \o OfSeverity(ps, "HIGH") \o OfSeverity(ps, "MEDIUM")
    \o OfSeverity(ps, "LOW")

\* the severity named by the last group header before position i
GroupAt(out, i) ==
    LET before == {j \in DOMAIN out : j < i /\ out[j].template = HeaderTemplate}
    IN IF before = {} THEN "none"
       ELSE out[CHOOSE j \in before : \A h \in before : h <= j].args[2]

\* C14: the text report renders every finding exactly once, under the header
\* of its severity; the groups come in the order CRITICAL, HIGH, MEDIUM, LOW,
\* one header per severity that has findings and none for the others; input
\* order is kept inside a group; an empty input gives only the success marker.
C14_TextGroupedBySeverity ==
    pc = "printed" =>
        IF problems = <<>> THEN output = <<SuccessLine>>
        ELSE LET locations == Positions(output, LocationTemplate)
                 headers == Positions(output, HeaderTemplate)
                 grouped == Grouped(problems)
                 present == {problems[i].severity : i \in DOMAIN problems}
             IN /\ \A i \in DOMAIN output : output[i] # SuccessLine
                /\ Len(locations) = Len(problems)
                /\ \A k \in DOMAIN locations :
                      /\ output[locations[k]].args =
                            <<grouped[k].file_path, grouped[k].line_number, grouped[k].column>>
                      /\ output[locations[k] + 1] = Line(ProblemTemplate, <<grouped[k].description>>)
                      /\ GroupAt(output, locations[k]) = grouped[k].severity
                /\ Len(headers) = Cardinality(present)
                /\ \A a, b \in DOMAIN headers :
                      a < b => Rank[output[headers[a]].args[2]] > Rank[output[headers[b]].args[2]]
                /\ \A a \in DOMAIN headers :
                      /\ output[headers[a]].args[2] \in present
                      /\ output[headers[a]].args[3] =
                            Len(OfSeverity(problems, output[headers[a]].args[2]))

\* LOW, CRITICAL, LOW in the input: the CRITICAL finding is rendered first, then
\* the two LOW findings in input order
C14_Witness ==
    /\ pc = "printed" /\ minSeverity = "none" /\ Len(problems) = 3
    /\ problems[1].severity = "LOW" /\ problems[2].severity = "CRITICAL"
    /\ problems[3].severity = "LOW" /\ problems[1] # problems[3]
    /\ Len(Positions(output, HeaderTemplate)) = 2
    /\ output[2].args[2] = "CRITICAL"
    /\ output[3].args = <<problems[2].file_path, problems[2].line_number, problems[2].column>>


C18_LineChecksAfterParse ==
    (/\ pc = "returned" /\ file.kind = "file" /\ PathSuffix(file.path) = E_py
     /\ file.lines # <<>> /\ ~Parsed(file)) =>
        /\ Len(found) = 1
        /\ \/ found[1].problem_type = "syntax_error"
           \/ found[1].problem_type = "parse_error" /\ found[1].severity = "HIGH"
        /\ \A k \in DOMAIN found :
              found[k].problem_type \notin
                 {"missing_import", "print_statement", "long_line", "todo_comment"}

\* the place of a finding's rule in its rule set: the parse step, then the
\* line rules in the order the rule table lists them
RuleRank(type) ==
    CASE type \in {"syntax_error", "parse_error", "empty_file"} -> 0
      [] type \in {"missing_import", "console_log", "system_out", "missing_include"} -> 1
      [] type \in {"print_statement", "var_declaration"} -> 2
      [] type \in {"long_line", "loose_equality"} -> 3
      [] type \in {"todo_comment", "any_type"} -> 4
      [] OTHER -> 5

\* C19: every rule set returns its findings in order of discovery: the line
\* numbers of the returned sequence are non-decreasing and findings on one
\* line are in rule order, for the files of every registered language.
C19_DiscoveryOrder ==
    (pc = "returned" /\ file.kind = "file") =>
        \A i, j \in DOMAIN found :
            i < j =>
               /\ found[i].line_number <= found[j].line_number
               /\ found[i].line_number = found[j].line_number =>
                     RuleRank(found[i].problem_type) <= RuleRank(found[j].problem_type)


----------------------------------------------------------------------------
(* The health statistics of a walked tree, checked under SpecWalk *)

\* the findings of the walk that name the file at path p
FindingsOf(p) == LET here(q) == q.file_path = p IN SelectSeq(found, here)

\* C16: a file whose only finding is the empty_file finding the analyzer
\* emits is in files_analyzed but not in files_with_problems, and every file
\* with any other finding is in files_with_problems.
C16_EmptyFileNotAProblem ==
    pc = "stats" =>
        \A p \in {found[i].file_path : i \in DOMAIN found} :
            LET fs == FindingsOf(p)
            IN /\ (Len(fs) = 1 /\ fs[1].problem_type = "empty_file") =>
                     p \in stats.files_analyzed /\ p \notin stats.files_with_problems
               /\ (\E k \in DOMAIN fs : fs[k].problem_type # "empty_file") =>
                     p \in stats.files_with_problems

----------------------------------------------------------------------------
(* Lines that use several aliases, checked under SpecImports *)

\* the aliases that occur on a line
AliasesOn(line) == {a \in Aliases : Contains(line, AliasToken(a))}

\* C17: the missing_import check is not exclusive across aliases: a line that
\* uses two or three of np., pd., plt., none of them imported on an earlier
\* line, yields one HIGH missing_import finding for each of those aliases.
C17_MissingImportNotExclusive ==
    PythonScanned =>
        \A i \in 1..Len(file.lines) :
            (/\ Cardinality(AliasesOn(file.lines[i])) >= 2
             /\ \A a \in AliasesOn(file.lines[i]) : ~ImportedBefore(a, file.lines, i))
            => \A a \in AliasesOn(file.lines[i]) : MissingImportCount(found, a, i) = 1

====
